---- MODULE Spec2Model ----
(***************************************************************************)
(* Model of src/services/llms/base.py: BaseLLMService, the abstract LLM    *)
(* reviewer with its two concrete helpers _clean_response_text and         *)
(* _parse_response, stepped one source line at a time by each caller.      *)
(*                                                                         *)
(* A Python str is a sequence of characters; a character is a one-letter   *)
(* string, except the backtick (U+0060), written BT, which a TLA+ string   *)
(* literal cannot hold.  The alphabet of the model: the backtick, the      *)
(* letters of the markers, keys and literals, digits, '-', the JSON        *)
(* punctuation, and the whitespace characters space, \t, \n, \r, \f.       *)
(* Not in the alphabet: the backslash (string escapes) and '.', 'E', '+'   *)
(* (fractions and exponents of numbers); NaN and Infinity.                 *)
(***************************************************************************)
EXTENDS Integers, Sequences, FiniteSets, TLC

\* ------------------------------------------------------------ characters

BT == "bt"
DQ == "\""

\* str.strip() with no argument strips what str.isspace() accepts.
PyWhitespace == {" ", "\t", "\n", "\r", "\f"}
\* json.decoder.WHITESPACE: [ \t\n\r]*
JsonWhitespace == {" ", "\t", "\n", "\r"}
\* py_scanstring, strict: a character below U+0020 inside a string literal.
ControlChars == {"\t", "\n", "\r", "\f"}
Digits == {"0", "1", "2", "3", "4", "5", "6", "7", "8", "9"}

DigitVal(ch) ==
    CASE ch = "0" -> 0 [] ch = "1" -> 1 [] ch = "2" -> 2 [] ch = "3" -> 3
      [] ch = "4" -> 4 [] ch = "5" -> 5 [] ch = "6" -> 6 [] ch = "7" -> 7
      [] ch = "8" -> 8 [] ch = "9" -> 9

\* The marker of line 53, '```json', and the marker of line 55, '```'.
FenceJson == <<BT, BT, BT, "j", "s", "o", "n">>
Fence == <<BT, BT, BT>>
\* text[7:] of line 54 and text[:-3] of line 56.
FenceJsonLen == 7
FenceLen == 3

\* ------------------------------------------------------------ str methods

\* s[i:i+1]: the character at 1-based position i, or '' out of range.
CharAt(s, i) == IF i \in 1..Len(s) THEN s[i] ELSE ""

\* s[n:], 0-based n as in Python.
DropFirst(s, n) == SubSeq(s, n + 1, Len(s))

\* s[:-n], for n > 0.
DropLast(s, n) == SubSeq(s, 1, Len(s) - n)

startswith(s, p) == Len(p) <= Len(s) /\ SubSeq(s, 1, Len(p)) = p

endswith(s, p) == Len(p) <= Len(s) /\ SubSeq(s, Len(s) - Len(p) + 1, Len(s)) = p

RECURSIVE lstrip(_)
lstrip(s) == IF s # <<>> /\ Head(s) \in PyWhitespace THEN lstrip(Tail(s)) ELSE s

RECURSIVE rstrip(_)
rstrip(s) ==
    IF s # <<>> /\ s[Len(s)] \in PyWhitespace THEN rstrip(DropLast(s, 1)) ELSE s

strip(s) == rstrip(lstrip(s))

\* ------------------------------------------------------------ Python values
\* What json.loads can return, tagged by Python type.

PyNone == [t |-> "NoneType"]
PyBool(b) == [t |-> "bool", b |-> b]
PyInt(n) == [t |-> "int", n |-> n]
PyStr(s) == [t |-> "str", s |-> s]
PyList(a) == [t |-> "list", a |-> a]
\* A dict is its items in insertion order, each <<key, value>>, keys unique.
PyDict(p) == [t |-> "dict", p |-> p]

\* isinstance(v, dict)
IsDict(v) == v.t = "dict"

\* bool(v)
Truthy(v) ==
    CASE v.t = "NoneType" -> FALSE
      [] v.t = "bool" -> v.b
      [] v.t = "int" -> v.n # 0
      [] v.t = "str" -> v.s # <<>>
      [] v.t = "list" -> v.a # <<>>
      [] v.t = "dict" -> v.p # <<>>

HasKey(items, k) == \E i \in 1..Len(items) : items[i][1] = k

\* d[k] = v on the items of a dict: a key already there keeps its place.
DictSet(items, k, v) ==
    IF HasKey(items, k)
    THEN [i \in 1..Len(items) |-> IF items[i][1] = k THEN <<k, v>> ELSE items[i]]
    ELSE Append(items, <<k, v>>)

\* d.get(k, default) on a dict d
DictGet(d, k, default) ==
    IF HasKey(d.p, k)
    THEN d.p[CHOOSE i \in 1..Len(d.p) : d.p[i][1] = k][2]
    ELSE default

\* The keys of lines 74, 79 and 80.
KeyReviews == <<"r", "e", "v", "i", "e", "w", "s">>
KeyLineNumber == <<"l", "i", "n", "e", "N", "u", "m", "b", "e", "r">>
KeyReviewComment ==
    <<"r", "e", "v", "i", "e", "w", "C", "o", "m", "m", "e", "n", "t">>

\* ------------------------------------------------------------ json.loads
\* CPython's json.decoder / json.scanner on a str.  A decode step returns
\* [ok, val, end]: ok = FALSE stands for json.JSONDecodeError, end is the
\* 1-based position after the value.

DecodeError == [ok |-> FALSE, val |-> PyNone, end |-> 0]
Decoded(v, e) == [ok |-> TRUE, val |-> v, end |-> e]

\* WHITESPACE.match(s, i).end()
RECURSIVE SkipWs(_, _)
SkipWs(s, i) == IF CharAt(s, i) \in JsonWhitespace THEN SkipWs(s, i + 1) ELSE i

\* s[i:i+len(w)] == w
IsAt(s, i, w) == i + Len(w) - 1 <= Len(s) /\ SubSeq(s, i, i + Len(w) - 1) = w

\* py_scanstring(s, end, strict=True): end is the position after the opening
\* quote; the value is the content up to the closing quote.
RECURSIVE scanstring(_, _, _)
scanstring(s, end, acc) ==
    LET ch == CharAt(s, end) IN
    IF ch = "" THEN DecodeError
    ELSE IF ch = DQ THEN Decoded(acc, end + 1)
    ELSE IF ch \in ControlChars THEN DecodeError
    ELSE scanstring(s, end + 1, Append(acc, ch))

\* The digits of NUMBER_RE's integer part from position i on.
RECURSIVE DigitsEnd(_, _)
DigitsEnd(s, i) == IF CharAt(s, i) \in Digits THEN DigitsEnd(s, i + 1) ELSE i

RECURSIVE IntOf(_, _, _)
IntOf(s, i, e) ==
    IF i >= e THEN 0 ELSE IntOf(s, i, e - 1) * 10 + DigitVal(s[e - 1])

\* NUMBER_RE = (-?(?:0|[1-9]\d*))(\.\d+)?([eE][-+]?\d+)? , integer part only.
match_number(s, idx) ==
    LET neg == CharAt(s, idx) = "-"
        i == IF neg THEN idx + 1 ELSE idx
        e == IF CharAt(s, i) = "0" THEN i + 1 ELSE DigitsEnd(s, i)
    IN  IF e = i THEN DecodeError
        ELSE Decoded(PyInt(IF neg THEN 0 - IntOf(s, i, e) ELSE IntOf(s, i, e)), e)

RECURSIVE scan_once(_, _)
RECURSIVE ObjectLoop(_, _, _)
RECURSIVE ArrayLoop(_, _, _)

\* JSONObject: end is the position after '{'.
JSONObject(s, end) ==
    LET e1 == SkipWs(s, end) IN
    IF CharAt(s, e1) = "}" THEN Decoded(PyDict(<<>>), e1 + 1)
    ELSE IF CharAt(s, e1) # DQ THEN DecodeError
    ELSE ObjectLoop(s, e1 + 1, <<>>)

\* The while loop of JSONObject: end is the position after a key's opening
\* quote, items the pairs decoded so far.
ObjectLoop(s, end, items) ==
    LET k == scanstring(s, end, <<>>) IN
    IF ~k.ok THEN DecodeError ELSE
    LET e2 == SkipWs(s, k.end) IN
    IF CharAt(s, e2) # ":" THEN DecodeError ELSE
    LET v == scan_once(s, SkipWs(s, e2 + 1)) IN
    IF ~v.ok THEN DecodeError ELSE
    LET e4 == SkipWs(s, v.end)
        nextchar == CharAt(s, e4)
        pairs == DictSet(items, k.val, v.val)
    IN  IF nextchar = "}" THEN Decoded(PyDict(pairs), e4 + 1)
        ELSE IF nextchar # "," THEN DecodeError
        ELSE LET e5 == SkipWs(s, e4 + 1) IN
             IF CharAt(s, e5) # DQ THEN DecodeError
             ELSE ObjectLoop(s, e5 + 1, pairs)

\* JSONArray: end is the position after '['.
JSONArray(s, end) ==
    LET e1 == SkipWs(s, end) IN
    IF CharAt(s, e1) = "]" THEN Decoded(PyList(<<>>), e1 + 1)
    ELSE ArrayLoop(s, e1, <<>>)

\* The while loop of JSONArray: end is the position of the next value.
ArrayLoop(s, end, values) ==
    LET v == scan_once(s, end) IN
    IF ~v.ok THEN DecodeError ELSE
    LET e2 == SkipWs(s, v.end)
        nextchar == CharAt(s, e2)
        vals == Append(values, v.val)
    IN  IF nextchar = "]" THEN Decoded(PyList(vals), e2 + 1)
        ELSE IF nextchar # "," THEN DecodeError
        ELSE ArrayLoop(s, SkipWs(s, e2 + 1), vals)

\* py_make_scanner's _scan_once; StopIteration becomes JSONDecodeError in
\* every caller.
scan_once(s, idx) ==
    LET nextchar == CharAt(s, idx) IN
    IF nextchar = "" THEN DecodeError
    ELSE IF nextchar = DQ THEN
        LET r == scanstring(s, idx + 1, <<>>) IN
        IF r.ok THEN Decoded(PyStr(r.val), r.end) ELSE DecodeError
    ELSE IF nextchar = "{" THEN JSONObject(s, idx + 1)
    ELSE IF nextchar = "[" THEN JSONArray(s, idx + 1)
    ELSE IF IsAt(s, idx, <<"n", "u", "l", "l">>) THEN Decoded(PyNone, idx + 4)
    ELSE IF IsAt(s, idx, <<"t", "r", "u", "e">>) THEN Decoded(PyBool(TRUE), idx + 4)
    ELSE IF IsAt(s, idx, <<"f", "a", "l", "s", "e">>)
        THEN Decoded(PyBool(FALSE), idx + 5)
    ELSE match_number(s, idx)

\* json.loads(s) = JSONDecoder().decode(s): leading whitespace, one value,
\* trailing whitespace, then the end ("Extra data" otherwise).
json_loads(s) ==
    LET r == scan_once(s, SkipWs(s, 1)) IN
    IF ~r.ok THEN DecodeError
    ELSE IF SkipWs(s, r.end) # Len(s) + 1 THEN DecodeError
    ELSE r

\* ------------------------------------------------------------ _clean_response_text

\* line 52: text = text.strip()
Line52(text) == strip(text)

\* Lines 53-54 with the slice one short: text[6:].
Line53Short(text) ==
    IF startswith(text, FenceJson) THEN DropFirst(text, FenceJsonLen - 1) ELSE text

\* Lines 53-54 taking the annotation as optional: a bare fence goes as well.
Line53AnyFence(text) ==
    IF startswith(text, FenceJson) THEN DropFirst(text, FenceJsonLen)
    ELSE IF startswith(text, Fence) THEN DropFirst(text, FenceLen)
    ELSE text

\* lines 53-54: if text.startswith('```json'): text = text[7:]
Line53(text) ==
    IF startswith(text, FenceJson) THEN DropFirst(text, FenceJsonLen) ELSE text

\* Lines 55-56 as a loop: while text.endswith('```'): text = text[:-3].
RECURSIVE Line55All(_)
Line55All(text) ==
    IF endswith(text, Fence) THEN Line55All(DropLast(text, FenceLen)) ELSE text

\* lines 55-56: if text.endswith('```'): text = text[:-3]
Line55(text) ==
    IF endswith(text, Fence) THEN DropLast(text, FenceLen) ELSE text

\* Line 57 without the second strip: return text.
Line57NoStrip(text) == text

\* line 57: return text.strip()
Line57(text) == strip(text)

\* The whole call, lines 52-57.
clean_response_text(text) == Line57(Line55(Line53(Line52(text))))

\* ------------------------------------------------------------ _parse_response

\* line 69: not response_text
Line69(response_text) == ~Truthy(response_text)

\* line 73: json.loads(response_text)
Line73(response_text) == json_loads(response_text.s)

\* line 74: data.get("reviews", []); only a dict has a get method, any other
\* decoded value raises AttributeError.
Line74(data) ==
    IF IsDict(data)
    THEN [exc |-> "", val |-> DictGet(data, KeyReviews, PyList(<<>>))]
    ELSE [exc |-> "AttributeError", val |-> PyNone]

\* line 77, "for review in reviews": iter() of a list gives its elements, of a
\* str its characters, of a dict its keys; of None, a bool or an int it raises
\* TypeError.
iter(v) ==
    CASE v.t = "list" -> [exc |-> "", items |-> v.a]
      [] v.t = "str" -> [exc |-> "", items |-> [i \in 1..Len(v.s) |-> PyStr(<<v.s[i]>>)]]
      [] v.t = "dict" -> [exc |-> "", items |-> [i \in 1..Len(v.p) |-> PyStr(v.p[i][1])]]
      [] OTHER -> [exc |-> "TypeError", items |-> <<>>]

\* Lines 78-80 without the test of line 80.
KeepLineOnly(review) ==
    /\ IsDict(review)
    /\ Truthy(DictGet(review, KeyLineNumber, PyNone))

\* lines 78-80: the condition of the comprehension.
Keep(review) ==
    /\ IsDict(review)
    /\ Truthy(DictGet(review, KeyLineNumber, PyNone))
    /\ Truthy(DictGet(review, KeyReviewComment, PyNone))

\* Lines 76-81 as a loop that stops at the first entry it does not keep.
RECURSIVE ListCompUntilInvalid(_)
ListCompUntilInvalid(items) ==
    IF items = <<>> \/ ~(/\ IsDict(Head(items))
                         /\ Truthy(DictGet(Head(items), KeyLineNumber, PyNone))
                         /\ Truthy(DictGet(Head(items), KeyReviewComment, PyNone)))
    THEN <<>>
    ELSE <<Head(items)>> \o ListCompUntilInvalid(Tail(items))

\* Lines 76-81 building each comment anew from the two keys.
RECURSIVE ListCompProjected(_)
ListCompProjected(items) ==
    IF items = <<>> THEN <<>>
    ELSE (IF /\ IsDict(Head(items))
             /\ Truthy(DictGet(Head(items), KeyLineNumber, PyNone))
             /\ Truthy(DictGet(Head(items), KeyReviewComment, PyNone))
          THEN <<PyDict(<< <<KeyLineNumber, DictGet(Head(items), KeyLineNumber, PyNone)>>,
                           <<KeyReviewComment,
                             DictGet(Head(items), KeyReviewComment, PyNone)>> >>)>>
          ELSE <<>>)
         \o ListCompProjected(Tail(items))

\* lines 76-81: [review for review in reviews if ...] over the items iter gave.
RECURSIVE ListComp(_)
ListComp(items) ==
    IF items = <<>> THEN <<>>
    ELSE (IF Keep(Head(items)) THEN <<Head(items)>> ELSE <<>>) \o ListComp(Tail(items))

\* The outcome of a call: exc = "" and the returned list, or the exception
\* that leaves the call.
Returns(list) == [exc |-> "", ret |-> list]
Raises(e) == [exc |-> e, ret |-> <<>>]

\* The whole call, lines 69-83.
parse_response(response_text) ==
    IF Line69(response_text) THEN Returns(<<>>)
    ELSE LET r == Line73(response_text) IN
         IF ~r.ok THEN Returns(<<>>)
         ELSE LET g == Line74(r.val) IN
              IF g.exc # "" THEN Raises(g.exc)
              ELSE LET it == iter(g.val) IN
                   IF it.exc # "" THEN Raises(it.exc)
                   ELSE Returns(ListComp(it.items))

\* ------------------------------------------------------------ bounds

\* Longest "reviews" array of a generated response.
MaxReviews == 2
\* Longest run of whitespace around a part of a response.
MaxPad == 1
\* Most repetitions of a fence marker at one end of a response.
MaxFence == 2

\* ------------------------------------------------------------ responses
\* The texts a model can answer with: a body, optionally between an opening
\* and a closing fence, with whitespace around each part.

RECURSIVE Repeat(_, _)
Repeat(s, n) == IF n = 0 THEN <<>> ELSE s \o Repeat(s, n - 1)

DigitChar(d) == <<"0", "1", "2", "3", "4", "5", "6", "7", "8", "9">>[d + 1]

RECURSIVE NatChars(_)
NatChars(n) == IF n < 10 THEN <<DigitChar(n)>> ELSE NatChars(n \div 10) \o <<DigitChar(n % 10)>>

\* json.dumps(v, separators=("," + sp, ":" + sp)): the text of a value.
RECURSIVE Dumps(_, _)
RECURSIVE DumpsElems(_, _, _)
RECURSIVE DumpsItems(_, _, _)
Dumps(v, sp) ==
    CASE v.t = "NoneType" -> <<"n", "u", "l", "l">>
      [] v.t = "bool" -> IF v.b THEN <<"t", "r", "u", "e">> ELSE <<"f", "a", "l", "s", "e">>
      [] v.t = "int" -> IF v.n < 0 THEN <<"-">> \o NatChars(0 - v.n) ELSE NatChars(v.n)
      [] v.t = "str" -> <<DQ>> \o v.s \o <<DQ>>
      [] v.t = "list" -> <<"[">> \o DumpsElems(v.a, 1, sp) \o <<"]">>
      [] v.t = "dict" -> <<"{">> \o DumpsItems(v.p, 1, sp) \o <<"}">>
DumpsElems(a, i, sp) ==
    IF i > Len(a) THEN <<>>
    ELSE (IF i > 1 THEN <<",">> \o sp ELSE <<>>) \o Dumps(a[i], sp) \o DumpsElems(a, i + 1, sp)
DumpsItems(p, i, sp) ==
    IF i > Len(p) THEN <<>>
    ELSE (IF i > 1 THEN <<",">> \o sp ELSE <<>>)
         \o <<DQ>> \o p[i][1] \o <<DQ, ":">> \o sp \o Dumps(p[i][2], sp)
         \o DumpsItems(p, i + 1, sp)

Review(line, comment) ==
    PyDict(<< <<KeyLineNumber, line>>, <<KeyReviewComment, comment>> >>)

StrOk == PyStr(<<"o", "k">>)

\* Entries of a "reviews" array: kept ones and every way of being dropped.
EntryIntLine == Review(PyInt(5), StrOk)
EntryStrLine ==
    PyDict(<< <<KeyLineNumber, PyStr(<<"4", "2">>)>>, <<KeyReviewComment, StrOk>>,
              <<<<"p", "a", "t", "h">>, PyStr(<<"a">>)>> >>)
EntryEmptyLine == Review(PyStr(<<>>), PyStr(<<"x">>))
EntryNoLine == PyDict(<< <<KeyReviewComment, PyStr(<<"y">>)>> >>)
EntryZeroLine == Review(PyInt(0), StrOk)
EntryNullComment == Review(PyInt(7), PyNone)
EntryNotDict == PyInt(5)

Entries ==
    {EntryIntLine, EntryStrLine, EntryEmptyLine, EntryNoLine, EntryZeroLine,
     EntryNullComment, EntryNotDict}

ReviewLists == UNION {[1..n -> Entries] : n \in 0..MaxReviews}

WithReviews(v) == PyDict(<< <<KeyReviews, v>> >>)

\* Documents of the expected format: an object with a "reviews" array.
ReviewDocs == {WithReviews(PyList(l)) : l \in ReviewLists}

\* Documents of any other shape.
OddDocs ==
    {PyList(<<PyInt(1)>>), PyList(<<EntryIntLine>>), PyInt(5), PyNone, PyBool(TRUE),
     PyStr(KeyReviews),
     PyDict(<<>>), PyDict(<< <<<<"o", "t", "h", "e", "r">>, PyInt(1)>> >>),
     WithReviews(PyInt(5)), WithReviews(PyNone), WithReviews(PyBool(FALSE)),
     WithReviews(PyStr(<<"a", "b">>)), WithReviews(EntryIntLine),
     WithReviews(PyList(<<Review(PyBool(FALSE), StrOk), Review(PyInt(-12), PyStr(Fence)),
                          Review(PyList(<<PyInt(1)>>), PyDict(<< <<<<"a">>, PyInt(1)>> >>)),
                          PyList(<<EntryIntLine>>), PyStr(KeyLineNumber)>>)),
     PyDict(<< <<<<"o", "t", "h", "e", "r">>, PyList(<<EntryIntLine>>)>>,
               <<KeyReviews, PyList(<<EntryStrLine, EntryIntLine>>)>> >>)}

OneReview == Dumps(WithReviews(PyList(<<EntryIntLine>>)), <<>>)
NotJson == <<"n", "o", "t", " ", "j", "s", "o", "n">>

\* Texts that do not decode, most of them with a well-formed review inside.
Malformed ==
    {NotJson,
     DropLast(OneReview, 1),
     DropFirst(OneReview, 1),
     OneReview \o <<"}">>,
     <<"x">> \o OneReview,
     <<"{", DQ>> \o KeyReviews \o <<DQ, ":", "[">> \o Dumps(EntryIntLine, <<>>) \o <<",", "]", "}">>,
     <<"{">> \o KeyReviews \o <<":", "[">> \o Dumps(EntryIntLine, <<>>) \o <<"]", "}">>,
     <<"{", DQ>> \o KeyReviews \o <<DQ, ":", "[", "0", "5", "]", "}">>,
     <<"x">> \o FenceJson \o <<" ", "y", " ">> \o Fence \o <<" ", "z">>}

\* A well-formed document written with a repeated key: the last value wins.
RepeatedKey ==
    <<"{", DQ>> \o KeyReviews \o <<DQ, ":", "[", "]", ",", " ", DQ>> \o KeyReviews
    \o <<DQ, ":", "[">> \o Dumps(EntryIntLine, <<>>) \o <<"]", "}">>

\* The bodies that decode as JSON, compact and spaced, and those that do not.
JsonBodies ==
    {Dumps(d, <<>>) : d \in ReviewDocs \cup OddDocs}
    \cup {Dumps(d, <<" ">>) : d \in OddDocs} \cup {RepeatedKey}
Bodies == JsonBodies \cup Malformed \cup {<<>>}

PadChars == {" ", "\n", "\f"}
Pads == {Repeat(<<ch>>, n) : ch \in PadChars, n \in 0..MaxPad}
Opens == {<<>>, Fence} \cup {Repeat(FenceJson, k) : k \in 1..MaxFence}
Closes == {Repeat(Fence, k) : k \in 0..MaxFence}

\* A response in parts; Render is the text the backend hands back.
Wrap(lead, open, gap, close, trail) ==
    [lead |-> lead, open |-> open, gap |-> gap, close |-> close, trail |-> trail]
Reply(w, body) ==
    [lead |-> w.lead, open |-> w.open, gap |-> w.gap, body |-> body,
     close |-> w.close, trail |-> w.trail]
Render(r) == r.lead \o r.open \o r.gap \o r.body \o r.gap \o r.close \o r.trail

NoReply == Reply(Wrap(<<>>, <<>>, <<>>, <<>>, <<>>), <<>>)

AllWraps == [lead : Pads, open : Opens, gap : Pads, close : Closes, trail : Pads]
CoreWraps ==
    {Wrap(<<>>, <<>>, <<>>, <<>>, <<>>),
     Wrap(<<>>, FenceJson, <<"\n">>, Fence, <<>>),
     Wrap(<<" ">>, FenceJson, <<>>, Fence, <<"\n">>),
     Wrap(<<>>, Fence, <<"\n">>, Fence, <<>>),
     Wrap(<<"\n">>, <<>>, <<"\f">>, <<>>, <<" ">>),
     Wrap(<<>>, FenceJson, <<"\f">>, <<>>, <<>>)}
CoreBodies == {OneReview, NotJson, <<>>}

\* Every body in the usual wrappings, and the usual bodies in every wrapping.
Replies ==
    {Reply(w, b) : w \in CoreWraps, b \in Bodies}
    \cup {Reply(w, b) : w \in AllWraps, b \in CoreBodies}

\* Arguments of a direct call of _parse_response.
DirectInputs ==
    {PyNone} \cup {PyStr(b) : b \in Bodies} \cup {PyStr(p) : p \in Pads}

\* What two interleaved callers are given.
ConcReplies ==
    {Reply(Wrap(<<>>, FenceJson, <<"\n">>, Fence, <<>>),
           Dumps(WithReviews(PyList(<<EntryIntLine, EntryEmptyLine>>)), <<>>)),
     Reply(Wrap(<<" ">>, FenceJson, <<>>, Fence, <<"\n">>),
           Dumps(WithReviews(PyList(<<EntryStrLine>>)), <<>>)),
     Reply(Wrap(<<>>, Fence, <<"\n">>, Fence, <<>>), OneReview),
     Reply(Wrap(<<>>, <<>>, <<>>, <<>>, <<"\n">>), NotJson),
     Reply(Wrap(<<>>, FenceJson, <<>>, Fence, <<>>), Dumps(PyList(<<EntryIntLine>>), <<>>))}
ConcDirect == {PyNone, PyStr(OneReview)}

\* ------------------------------------------------------------ state

Callers == {1, 2}
Solo == {1}
\* The BaseLLMService objects the callers hold.
Instances == {"a", "b"}

VARIABLES
    pc,             \* per caller: the source line it is about to run
    self,           \* per caller: the instance its calls are made on
    attrs,          \* per instance: its attributes (__dict__), as items
    entry,          \* per caller: "review" (backend, clean, parse) or "parse"
    reply,          \* per caller: the response the backend produced
    text,           \* per caller: local text of _clean_response_text
    response_text,  \* per caller: argument of _parse_response
    data,           \* per caller: local data of _parse_response
    reviews,        \* per caller: local reviews of _parse_response
    loads_called,   \* per caller: json.loads was called in this call
    result,         \* per caller: the list the call returned
    exc             \* per caller: the exception that left the call, or ""

vars ==
    <<pc, self, attrs, entry, reply, text, response_text, data, reviews,
      loads_called, result, exc>>

\* A BaseLLMService has no __init__ and no class attribute: an empty __dict__.
NoAttrs == [i \in Instances |-> <<>>]

Idle ==
    /\ pc = [c \in Callers |-> "idle"]
    /\ attrs = NoAttrs
    /\ entry = [c \in Callers |-> ""]
    /\ reply = [c \in Callers |-> NoReply]
    /\ text = [c \in Callers |-> <<>>]
    /\ response_text = [c \in Callers |-> PyNone]
    /\ data = [c \in Callers |-> PyNone]
    /\ reviews = [c \in Callers |-> PyNone]
    /\ loads_called = [c \in Callers |-> FALSE]
    /\ result = [c \in Callers |-> <<>>]
    /\ exc = [c \in Callers |-> ""]

\* One caller, one instance.
Init == Idle /\ self = [c \in Callers |-> "a"]

\* Two callers, on the same instance or on two.
InitConc == Idle /\ self \in [Callers -> Instances]

\* ------------------------------------------------------------ get_ai_response
\* Abstract in BaseLLMService (lines 29-40); a concrete service calls its
\* backend and hands the text to the two helpers.

\* The backend answers: the text is bound to the parameter of
\* _clean_response_text.
BackendReturns(c, R) ==
    /\ pc[c] = "idle"
    /\ \E r \in R :
        /\ reply' = [reply EXCEPT ![c] = r]
        /\ text' = [text EXCEPT ![c] = Render(r)]
    /\ entry' = [entry EXCEPT ![c] = "review"]
    /\ pc' = [pc EXCEPT ![c] = "c52"]
    /\ UNCHANGED <<self, attrs, response_text, data, reviews, loads_called, result, exc>>

\* The backend call fails (network, authentication, quota).
BackendRaises(c) ==
    /\ pc[c] = "idle"
    /\ entry' = [entry EXCEPT ![c] = "review"]
    /\ exc' = [exc EXCEPT ![c] = "BackendError"]
    /\ pc' = [pc EXCEPT ![c] = "raised"]
    /\ UNCHANGED <<self, attrs, reply, text, response_text, data, reviews, loads_called, result>>

\* ------------------------------------------------------------ _clean_response_text

Clean52(c) ==
    /\ pc[c] = "c52"
    /\ text' = [text EXCEPT ![c] = Line52(text[c])]
    /\ pc' = [pc EXCEPT ![c] = "c53"]
    /\ UNCHANGED <<self, attrs, entry, reply, response_text, data, reviews, loads_called, result, exc>>

Clean53(c) ==
    /\ pc[c] = "c53"
    /\ text' = [text EXCEPT ![c] = Line53(text[c])]
    /\ pc' = [pc EXCEPT ![c] = "c55"]
    /\ UNCHANGED <<self, attrs, entry, reply, response_text, data, reviews, loads_called, result, exc>>

\* Line 55 keeping text on the instance (self.text) instead of in the frame:
\* every caller on that instance sees the assignment.
Clean55OnSelf(c) ==
    /\ pc[c] = "c55"
    /\ text' = [d \in Callers |-> IF self[d] = self[c] THEN Line55(text[c]) ELSE text[d]]
    /\ pc' = [pc EXCEPT ![c] = "c57"]
    /\ UNCHANGED <<self, attrs, entry, reply, response_text, data, reviews, loads_called, result, exc>>

Clean55(c) ==
    /\ pc[c] = "c55"
    /\ text' = [text EXCEPT ![c] = Line55(text[c])]
    /\ pc' = [pc EXCEPT ![c] = "c57"]
    /\ UNCHANGED <<self, attrs, entry, reply, response_text, data, reviews, loads_called, result, exc>>

\* line 57 returns; the service passes the value on to _parse_response.
Clean57(c) ==
    /\ pc[c] = "c57"
    /\ response_text' = [response_text EXCEPT ![c] = PyStr(Line57(text[c]))]
    /\ pc' = [pc EXCEPT ![c] = "p69"]
    /\ UNCHANGED <<self, attrs, entry, reply, text, data, reviews, loads_called, result, exc>>

\* ------------------------------------------------------------ _parse_response

\* A direct call, line 59: any str, or None.
CallParse(c, D) ==
    /\ pc[c] = "idle"
    /\ \E v \in D : response_text' = [response_text EXCEPT ![c] = v]
    /\ entry' = [entry EXCEPT ![c] = "parse"]
    /\ pc' = [pc EXCEPT ![c] = "p69"]
    /\ UNCHANGED <<self, attrs, reply, text, data, reviews, loads_called, result, exc>>

\* lines 69-70
Parse69(c) ==
    /\ pc[c] = "p69"
    /\ IF Line69(response_text[c])
       THEN /\ result' = [result EXCEPT ![c] = <<>>]
            /\ pc' = [pc EXCEPT ![c] = "done"]
       ELSE /\ pc' = [pc EXCEPT ![c] = "p73"]
            /\ UNCHANGED result
    /\ UNCHANGED <<self, attrs, entry, reply, text, response_text, data, reviews, loads_called, exc>>

\* line 73, inside the try of line 72
Parse73(c) ==
    /\ pc[c] = "p73"
    /\ loads_called' = [loads_called EXCEPT ![c] = TRUE]
    /\ LET r == Line73(response_text[c]) IN
       IF r.ok
       THEN /\ data' = [data EXCEPT ![c] = r.val]
            /\ pc' = [pc EXCEPT ![c] = "p74"]
       ELSE /\ pc' = [pc EXCEPT ![c] = "p82"]
            /\ UNCHANGED data
    /\ UNCHANGED <<self, attrs, entry, reply, text, response_text, reviews, result, exc>>

\* line 74; AttributeError is no JSONDecodeError, so line 82 lets it through.
Parse74(c) ==
    /\ pc[c] = "p74"
    /\ LET g == Line74(data[c]) IN
       IF g.exc = ""
       THEN /\ reviews' = [reviews EXCEPT ![c] = g.val]
            /\ pc' = [pc EXCEPT ![c] = "p76"]
            /\ UNCHANGED exc
       ELSE /\ exc' = [exc EXCEPT ![c] = g.exc]
            /\ pc' = [pc EXCEPT ![c] = "raised"]
            /\ UNCHANGED reviews
    /\ UNCHANGED <<self, attrs, entry, reply, text, response_text, data, loads_called, result>>

\* lines 76-81; TypeError is let through the same way.
Parse76(c) ==
    /\ pc[c] = "p76"
    /\ LET it == iter(reviews[c]) IN
       IF it.exc = ""
       THEN /\ result' = [result EXCEPT ![c] = ListComp(it.items)]
            /\ pc' = [pc EXCEPT ![c] = "done"]
            /\ UNCHANGED exc
       ELSE /\ exc' = [exc EXCEPT ![c] = it.exc]
            /\ pc' = [pc EXCEPT ![c] = "raised"]
            /\ UNCHANGED result
    /\ UNCHANGED <<self, attrs, entry, reply, text, response_text, data, reviews, loads_called>>

\* Lines 82-83 with a bare raise in the handler.
Parse82Reraise(c) ==
    /\ pc[c] = "p82"
    /\ exc' = [exc EXCEPT ![c] = "JSONDecodeError"]
    /\ pc' = [pc EXCEPT ![c] = "raised"]
    /\ UNCHANGED <<self, attrs, entry, reply, text, response_text, data, reviews, loads_called, result>>

\* lines 82-83
Parse82(c) ==
    /\ pc[c] = "p82"
    /\ result' = [result EXCEPT ![c] = <<>>]
    /\ pc' = [pc EXCEPT ![c] = "done"]
    /\ UNCHANGED <<self, attrs, entry, reply, text, response_text, data, reviews, loads_called, exc>>

\* The caller has its answer; the frames and their locals are gone.
Finish(c) ==
    /\ pc[c] \in {"done", "raised"}
    /\ pc' = [pc EXCEPT ![c] = "idle"]
    /\ entry' = [entry EXCEPT ![c] = ""]
    /\ reply' = [reply EXCEPT ![c] = NoReply]
    /\ text' = [text EXCEPT ![c] = <<>>]
    /\ response_text' = [response_text EXCEPT ![c] = PyNone]
    /\ data' = [data EXCEPT ![c] = PyNone]
    /\ reviews' = [reviews EXCEPT ![c] = PyNone]
    /\ loads_called' = [loads_called EXCEPT ![c] = FALSE]
    /\ result' = [result EXCEPT ![c] = <<>>]
    /\ exc' = [exc EXCEPT ![c] = ""]
    /\ UNCHANGED <<self, attrs>>

\* ------------------------------------------------------------ specifications

Next ==
    \E c \in Solo :
        \/ BackendReturns(c, Replies)
        \/ BackendRaises(c)
        \/ CallParse(c, DirectInputs)
        \/ Clean52(c) \/ Clean53(c) \/ Clean55(c) \/ Clean57(c)
        \/ Parse69(c) \/ Parse73(c) \/ Parse74(c) \/ Parse76(c) \/ Parse82(c)
        \/ Finish(c)

Spec == Init /\ [][Next]_vars

NextConc ==
    \E c \in Callers :
        \/ BackendReturns(c, ConcReplies)
        \/ BackendRaises(c)
        \/ CallParse(c, ConcDirect)
        \/ Clean52(c) \/ Clean53(c) \/ Clean55(c) \/ Clean57(c)
        \/ Parse69(c) \/ Parse73(c) \/ Parse74(c) \/ Parse76(c) \/ Parse82(c)
        \/ Finish(c)

SpecConc == InitConc /\ [][NextConc]_vars

\* ------------------------------------------------------------ properties

\* The text handed to _clean_response_text in caller c's review run.
Raw(c) == Render(reply[c])

\* _clean_response_text has returned in caller c's review run.
Cleaned(c) ==
    /\ entry[c] = "review"
    /\ pc[c] \in {"p69", "p73", "p74", "p76", "p82", "done", "raised"}
    /\ exc[c] # "BackendError"

\* _parse_response has ended, by return or by exception.
ParseEnded(c) == pc[c] \in {"done", "raised"} /\ exc[c] # "BackendError"

\* How the call of _parse_response ended.
Outcome(c) == [exc |-> exc[c], ret |-> result[c]]

\* s without its leading and trailing whitespace, said without recursion.
TrimOf(s) ==
    LET solid == {i \in 1..Len(s) : s[i] \notin PyWhitespace} IN
    IF solid = {} THEN <<>>
    ELSE SubSeq(s, CHOOSE i \in solid : \A j \in solid : i <= j,
                   CHOOSE i \in solid : \A j \in solid : i >= j)

\* The values Python takes for false.
Falsy ==
    {PyNone, PyBool(FALSE), PyInt(0), PyStr(<<>>), PyList(<<>>), PyDict(<<>>)}

\* v is a mapping with a value at key k that is not falsy.
HasTruthy(v, k) ==
    /\ v.t = "dict"
    /\ \E i \in 1..Len(v.p) : v.p[i][1] = k /\ v.p[i][2] \notin Falsy

ValidEntry(v) == HasTruthy(v, KeyLineNumber) /\ HasTruthy(v, KeyReviewComment)

\* w occurs in s.
Occurs(w, s) == \E i \in 1..(Len(s) - Len(w) + 1) : SubSeq(s, i, i + Len(w) - 1) = w

\* C1: _parse_response and _clean_response_text never raise: the only
\* exception that can leave a call is the backend's.
C1_OnlyBackendRaises == \A c \in Callers : exc[c] \in {"", "BackendError"}

\* C2: every element of a list _parse_response returned is a mapping with a
\* truthy value at "lineNumber" and a truthy value at "reviewComment".
C2_ReturnedEntriesValid ==
    \A c \in Callers :
        pc[c] = "done" =>
            \A i \in 1..Len(result[c]) :
                /\ HasTruthy(result[c][i], KeyLineNumber)
                /\ HasTruthy(result[c][i], KeyReviewComment)

\* A call returned one entry of a two-entry array: the other was dropped.
C2_Witness ==
    \E c \in Callers :
        /\ pc[c] = "done"
        /\ reviews[c].t = "list" /\ Len(reviews[c].a) = 2
        /\ Len(result[c]) = 1

\* C3, as claimed: for every text that begins with the opening marker or ends
\* with the closing marker, cleaning the cleaned text changes nothing.
C3_Idempotent ==
    \A c \in Callers :
        (Cleaned(c) /\ (startswith(Raw(c), FenceJson) \/ endswith(Raw(c), Fence))) =>
            clean_response_text(response_text[c].s) = response_text[c].s

\* C3, amended: for every text that begins with the opening marker or ends
\* with the closing marker and whose cleaned text neither begins with the
\* opening marker nor ends with the closing marker, cleaning the cleaned text
\* changes nothing.
C3_IdempotentOnceBare ==
    \A c \in Callers :
        (/\ Cleaned(c)
         /\ startswith(Raw(c), FenceJson) \/ endswith(Raw(c), Fence)
         /\ ~startswith(response_text[c].s, FenceJson)
         /\ ~endswith(response_text[c].s, Fence)) =>
            clean_response_text(response_text[c].s) = response_text[c].s

\* A fenced text with whitespace inside the fences was cleaned to its body.
C3_Witness ==
    \E c \in Callers :
        /\ Cleaned(c)
        /\ startswith(Raw(c), FenceJson) /\ endswith(Raw(c), Fence)
        /\ reply[c].gap # <<>>
        /\ response_text[c].s = OneReview

\* The body of caller c's response is of the documented format: an object
\* with a "reviews" array.
WellFormed(c) ==
    LET d == json_loads(reply[c].body) IN
    /\ d.ok /\ d.val.t = "dict"
    /\ \E i \in 1..Len(d.val.p) : d.val.p[i][1] = KeyReviews /\ d.val.p[i][2].t = "list"

\* C4: for a JSON body between one opening and one closing fence, with any
\* whitespace around the parts, cleaning then parsing ends as parsing the
\* body itself does; for a body of the documented format both return the
\* same comments in the same order.
C4_RoundTrip ==
    \A c \in Callers :
        (/\ entry[c] = "review" /\ ParseEnded(c)
         /\ reply[c].open = FenceJson /\ reply[c].close = Fence
         /\ json_loads(reply[c].body).ok) =>
            /\ Outcome(c) = parse_response(PyStr(reply[c].body))
            /\ WellFormed(c) => exc[c] = "" /\ pc[c] = "done"

\* A fenced, padded response of the documented format gave its comment.
C4_Witness ==
    \E c \in Callers :
        /\ entry[c] = "review" /\ pc[c] = "done"
        /\ reply[c].open = FenceJson /\ reply[c].close = Fence
        /\ reply[c].lead # <<>> /\ reply[c].gap # <<>> /\ reply[c].trail # <<>>
        /\ WellFormed(c)
        /\ result[c] = <<EntryIntLine>>

\* C5: when the text decodes to an object whose "reviews" is an array, the
\* list returned is the array's valid entries, each one kept, in the array's
\* order, duplicates included.
C5_ValidSubsequence ==
    \A c \in Callers :
        (/\ pc[c] = "done" /\ loads_called[c]
         /\ data[c].t = "dict"
         /\ DictGet(data[c], KeyReviews, PyNone).t = "list") =>
            result[c] = SelectSeq(DictGet(data[c], KeyReviews, PyNone).a, ValidEntry)

\* An invalid entry ahead of a valid one was dropped and the valid one kept.
C5_Witness ==
    \E c \in Callers :
        /\ pc[c] = "done" /\ data[c].t = "dict"
        /\ DictGet(data[c], KeyReviews, PyNone) = PyList(<<EntryEmptyLine, EntryStrLine>>)
        /\ result[c] = <<EntryStrLine>>

\* C6: the cleaned text is the raw text trimmed, less its first 7 characters
\* if it then begins with the opening marker, less its last 3 characters if
\* it then ends with the closing marker, trimmed again; whitespace alone
\* gives the empty text and a text with neither marker its trimmed self.
C6_CleanAlgorithm ==
    \A c \in Callers :
        Cleaned(c) =>
            LET t1 == TrimOf(Raw(c))
                t2 == IF Len(t1) >= 7 /\ SubSeq(t1, 1, 7) = FenceJson
                      THEN SubSeq(t1, 8, Len(t1)) ELSE t1
                t3 == IF Len(t2) >= 3 /\ SubSeq(t2, Len(t2) - 2, Len(t2)) = Fence
                      THEN SubSeq(t2, 1, Len(t2) - 3) ELSE t2
            IN  /\ response_text[c] = PyStr(TrimOf(t3))
                /\ (\A i \in 1..Len(Raw(c)) : Raw(c)[i] \in PyWhitespace) =>
                       response_text[c].s = <<>>
                /\ (~startswith(t1, FenceJson) /\ ~endswith(t1, Fence)) =>
                       response_text[c].s = t1

\* A padded text with a repeated closing marker lost one marker at each end.
C6_Witness ==
    \E c \in Callers :
        /\ Cleaned(c)
        /\ reply[c].lead # <<>> /\ reply[c].open = FenceJson
        /\ reply[c].close = Repeat(Fence, 2) /\ reply[c].body = OneReview
        /\ response_text[c].s = OneReview \o reply[c].gap \o Fence

\* C7: _parse_response returns the empty list for None or the empty text,
\* without calling the decoder; for a text that does not decode, whatever
\* well-formed reviews it holds; and for an object with no "reviews" key.
C7_DegradesToEmpty ==
    \A c \in Callers :
        ParseEnded(c) =>
            /\ response_text[c] \in {PyNone, PyStr(<<>>)} =>
                   pc[c] = "done" /\ result[c] = <<>> /\ ~loads_called[c]
            /\ (response_text[c].t = "str" /\ response_text[c].s # <<>>) =>
                   /\ loads_called[c]
                   /\ ~json_loads(response_text[c].s).ok =>
                          pc[c] = "done" /\ result[c] = <<>>
                   /\ response_text[c].s \in Malformed =>
                          pc[c] = "done" /\ result[c] = <<>>
                   /\ (/\ json_loads(response_text[c].s).ok
                       /\ json_loads(response_text[c].s).val.t = "dict"
                       /\ ~HasKey(json_loads(response_text[c].s).val.p, KeyReviews)) =>
                          pc[c] = "done" /\ result[c] = <<>>

\* A text one character short of a document with a valid review gave nothing.
C7_Witness ==
    \E c \in Callers :
        /\ pc[c] = "done" /\ loads_called[c]
        /\ response_text[c] = PyStr(DropLast(OneReview, 1))
        /\ Occurs(Dumps(EntryIntLine, <<>>), response_text[c].s)
        /\ result[c] = <<>>

\* C8: no call touches an instance's attributes, and whatever the other
\* caller does meanwhile, on the same instance or another, each call ends as
\* the same call run alone on its own argument.
C8_Stateless ==
    /\ attrs = NoAttrs
    /\ \A c \in Callers :
        /\ Cleaned(c) => response_text[c] = PyStr(clean_response_text(Raw(c)))
        /\ ParseEnded(c) => Outcome(c) = parse_response(response_text[c])

\* Two callers on one instance each got the comments of their own response
\* while the other's call was under way.
C8_Witness ==
    /\ self[1] = self[2]
    /\ pc[1] = "done" /\ result[1] = <<EntryIntLine>>
    /\ pc[2] = "p76" /\ reply[2] # reply[1] /\ reviews[2] = PyList(<<EntryStrLine>>)

\* C9: of a JSON body between a bare opening fence and a closing fence only
\* the closing marker goes, the opening one stays, and parsing the cleaned
\* text returns the empty list; a marker inside the text stays where it is.
C9_BareFenceStays ==
    \A c \in Callers :
        /\ (/\ Cleaned(c)
            /\ reply[c].open = Fence /\ reply[c].close = Fence
            /\ reply[c].body \in JsonBodies) =>
               /\ response_text[c].s = Fence \o reply[c].gap \o reply[c].body
               /\ pc[c] # "raised"
               /\ pc[c] = "done" => result[c] = <<>>
        /\ (/\ Cleaned(c)
            /\ reply[c].open = <<>> /\ reply[c].close = <<>>
            /\ Occurs(Fence, reply[c].body)) =>
               response_text[c].s = TrimOf(reply[c].gap \o reply[c].body \o reply[c].gap)

\* A document with a valid review, fenced without the annotation, gave nothing.
C9_Witness ==
    \E c \in Callers :
        /\ entry[c] = "review" /\ pc[c] = "done"
        /\ reply[c].open = Fence /\ reply[c].close = Fence
        /\ reply[c].body = OneReview
        /\ result[c] = <<>>

\* The bodies written by Dumps without spaces.
CompactBodies == {Dumps(d, <<>>) : d \in ReviewDocs \cup OddDocs}

\* C10: every element returned is an element of the decoded "reviews" array,
\* unchanged: for a compact body, its text with all its keys and values, in
\* their types, is in the response.
C10_EntriesUnchanged ==
    \A c \in Callers :
        pc[c] = "done" =>
            /\ result[c] # <<>> => reviews[c].t = "list"
            /\ \A i \in 1..Len(result[c]) :
                /\ \E j \in 1..Len(reviews[c].a) : result[c][i] = reviews[c].a[j]
                /\ (entry[c] = "review" /\ reply[c].body \in CompactBodies) =>
                       Occurs(Dumps(result[c][i], <<>>), reply[c].body)

\* An entry with a third key and a string line number came back whole, after
\* an entry with an integer line number.
C10_Witness ==
    \E c \in Callers :
        /\ pc[c] = "done" /\ entry[c] = "review"
        /\ reply[c].body \in CompactBodies
        /\ result[c] = <<EntryIntLine, EntryStrLine>>
        /\ Len(result[c][2].p) = 3
        /\ DictGet(result[c][2], KeyLineNumber, PyNone).t = "str"
        /\ DictGet(result[c][1], KeyLineNumber, PyNone).t = "int"

====
